---- MODULE Spec2Model ----
(***************************************************************************)
(* Model of scraper.py: the price codec, the two storefront search         *)
(* strategies (SteamScraper, PsnScraper) and run_scraper, which reads the  *)
(* wishlist sheet, looks each game up on both storefronts, reconciles the  *)
(* historical-minimum columns and writes the five output columns back.     *)
(*                                                                         *)
(* Texts (cell values, price strings, messages) are sequences of           *)
(* one-character strings, so that the string operations of the code        *)
(* (lower, strip, replace, split, "in", the regular expression) are        *)
(* computed character by character.                                        *)
(***************************************************************************)
EXTENDS Integers, Sequences, FiniteSets, TLC

VARIABLES
    sheetHeader,    \* row 1 of the worksheet: sequence of column names
    sheetRows,      \* data rows of the worksheet: sequence of sequences of cells
    sheetCache,     \* _sheet_cache: TRUE when the worksheet object is cached
    dataCache,      \* _data_cache: [present, header, rows] snapshot of get_all_records
    lastCacheUpdate,\* _last_cache_update[sheet_name], seconds
    now,            \* wall clock, seconds
    pc,             \* position of run_scraper: "idle" (not running), "steam",
                    \* "psn", "write", "done" (about to return)
    runs,           \* number of run_scraper invocations started
    df,             \* the DataFrame: sequence of records column name -> text
    col_indices,    \* col_indices: column name -> 1-based column of the sheet
    index,          \* 1-based position of the item loop
    lastResp,       \* the storefront response of the last lookup
    lastOut,        \* what the last lookup returned (result, fetches, raised)
    trace           \* what the current run did, in order: queries and store writes

vars == <<sheetHeader, sheetRows, sheetCache, dataCache, lastCacheUpdate, now,
          pc, runs, df, col_indices, index, lastResp, lastOut, trace>>

(***************************************************************************)
(* Texts                                                                   *)
(***************************************************************************)
EmptyText == <<>>

Whitespace == {" ", "\t", "\n"}

Digits == <<"0", "1", "2", "3", "4", "5", "6", "7", "8", "9">>

UpperChars == <<"A","B","C","D","E","F","G","H","I","J","K","L","M","N","O","P",
                "Q","R","S","T","U","V","W","X","Y","Z","Ç","Ã","Í">>

LowerChars == <<"a","b","c","d","e","f","g","h","i","j","k","l","m","n","o","p",
                "q","r","s","t","u","v","w","x","y","z","ç","ã","í">>

IsDigit(c) == \E i \in 1..Len(Digits) : Digits[i] = c

DigitVal(c) == (CHOOSE i \in 1..Len(Digits) : Digits[i] = c) - 1

LowerChar(c) ==
    IF \E i \in 1..Len(UpperChars) : UpperChars[i] = c
    THEN LowerChars[CHOOSE i \in 1..Len(UpperChars) : UpperChars[i] = c]
    ELSE c

\* str.lower()
Lower(s) == [i \in 1..Len(s) |-> LowerChar(s[i])]

RECURSIVE LStrip(_)
LStrip(s) ==
    IF s # <<>> /\ Head(s) \in Whitespace THEN LStrip(Tail(s)) ELSE s

RECURSIVE RStrip(_)
RStrip(s) ==
    IF s # <<>> /\ s[Len(s)] \in Whitespace
    THEN RStrip(SubSeq(s, 1, Len(s) - 1))
    ELSE s

\* str.strip()
Strip(s) == RStrip(LStrip(s))

StartsWith(s, pat) ==
    Len(pat) <= Len(s) /\ SubSeq(s, 1, Len(pat)) = pat

Drop(s, n) == SubSeq(s, n + 1, Len(s))

\* pat in s
Contains(s, pat) ==
    \E i \in 0..(Len(s) - Len(pat)) : StartsWith(Drop(s, i), pat)

\* s.replace(pat, rep): leftmost, non-overlapping occurrences
RECURSIVE Replace(_, _, _)
Replace(s, pat, rep) ==
    IF s = <<>> THEN <<>>
    ELSE IF StartsWith(s, pat) THEN rep \o Replace(Drop(s, Len(pat)), pat, rep)
    ELSE <<Head(s)>> \o Replace(Tail(s), pat, rep)

\* s.split(pat)[-1]: what follows the last occurrence of pat (all of s if none)
RECURSIVE SplitLast(_, _)
SplitLast(s, pat) ==
    IF Contains(s, pat)
    THEN LET i == CHOOSE k \in 0..(Len(s) - Len(pat)) :
                      /\ StartsWith(Drop(s, k), pat)
                      /\ \A j \in 0..(k - 1) : ~StartsWith(Drop(s, j), pat)
         IN  SplitLast(Drop(s, i + Len(pat)), pat)
    ELSE s

\* str(n) for a natural number
RECURSIVE NatText(_)
NatText(n) ==
    IF n < 10 THEN <<Digits[n + 1]>>
    ELSE NatText(n \div 10) \o <<Digits[(n % 10) + 1]>>

RECURSIVE DigitsToNat(_)
DigitsToNat(s) ==
    IF s = <<>> THEN 0
    ELSE 10 * DigitsToNat(SubSeq(s, 1, Len(s) - 1)) + DigitVal(s[Len(s)])

RECURSIVE Pow10(_)
Pow10(k) == IF k = 0 THEN 1 ELSE 10 * Pow10(k - 1)

(***************************************************************************)
(* Floats: +infinity, or the decimal num / 10^scale.                       *)
(***************************************************************************)
Inf == [inf |-> TRUE, num |-> 0, scale |-> 0]

Dec(n, k) == [inf |-> FALSE, num |-> n, scale |-> k]

IsInf(a) == a.inf

\* a < b on floats
FloatLess(a, b) ==
    /\ ~a.inf
    /\ \/ b.inf
       \/ a.num * Pow10(b.scale) < b.num * Pow10(a.scale)

\* a == b on floats
FloatEq(a, b) ==
    \/ a.inf /\ b.inf
    \/ ~a.inf /\ ~b.inf /\ a.num * Pow10(b.scale) = b.num * Pow10(a.scale)

FloatMin(a, b) == IF FloatLess(b, a) THEN b ELSE a

(***************************************************************************)
(* The texts of the program                                                *)
(***************************************************************************)
TxtGratuito == <<"g","r","a","t","u","i","t","o">>

TxtUnavailable ==
    <<"P","r","e","ç","o"," ","i","n","d","i","s","p","o","n","í","v","e","l">>

TxtPrecoIndisponivel == Lower(TxtUnavailable)

TxtNaoEncontrado == <<"n","ã","o"," ","e","n","c","o","n","t","r","a","d","o">>

TxtReais == <<"R","$">>

\* a non-string cell (NaN, a number): isinstance(price_str, str) is False
NonString == <<"\\NaN">>

(***************************************************************************)
(* clean_price_to_float                                                    *)
(***************************************************************************)
\* re.search(r'\d[\d\.]*', s).group(0), or <<>> when nothing matches
RECURSIVE NumericRun(_)
NumericRun(s) ==
    IF s = <<>> THEN <<>>
    ELSE IF IsDigit(Head(s)) \/ Head(s) = "."
    THEN <<Head(s)>> \o NumericRun(Tail(s))
    ELSE <<>>

RECURSIVE FirstMatch(_)
FirstMatch(s) ==
    IF s = <<>> THEN <<>>
    ELSE IF IsDigit(Head(s)) THEN NumericRun(s)
    ELSE FirstMatch(Tail(s))

CountDots(s) == Cardinality({i \in 1..Len(s) : s[i] = "."})

\* a revision that rounds the parsed amount up to the next integer
ParseFloat_ceil(m) ==
    IF CountDots(m) > 1 THEN Inf
    ELSE IF CountDots(m) = 0 THEN Dec(DigitsToNat(m), 0)
    ELSE LET d == CHOOSE i \in 1..Len(m) : m[i] = "."
             ip == DigitsToNat(SubSeq(m, 1, d - 1))
             fp == DigitsToNat(SubSeq(m, d + 1, Len(m)))
         IN  Dec(IF fp > 0 THEN ip + 1 ELSE ip, 0)

\* float(text) for a text of digits and dots that starts with a digit;
\* more than one dot raises ValueError, which the caller turns into inf
ParseFloat(m) ==
    IF CountDots(m) > 1 THEN Inf
    ELSE IF CountDots(m) = 0 THEN Dec(DigitsToNat(m), 0)
    ELSE LET d == CHOOSE i \in 1..Len(m) : m[i] = "."
             ip == SubSeq(m, 1, d - 1)
             fp == SubSeq(m, d + 1, Len(m))
         IN  Dec(DigitsToNat(ip \o fp), Len(fp))

clean_price_to_float(price_str) ==
    IF price_str = NonString THEN Inf
    ELSE LET s == Strip(Lower(price_str)) IN
         IF Contains(s, TxtGratuito) THEN Dec(0, 0)
         ELSE IF Contains(s, TxtPrecoIndisponivel) \/ Contains(s, TxtNaoEncontrado)
         THEN Inf
         ELSE LET cleaned == Strip(Replace(Replace(Replace(s, <<"r","$">>, <<>>),
                                                   <<".">>, <<>>),
                                           <<",">>, <<".">>))
                  m == FirstMatch(cleaned)
              IN  IF m = <<>> THEN Inf ELSE ParseFloat(m)

(***************************************************************************)
(* format_float_to_price_str.  The floats formatted have at most two       *)
(* decimals, so that '.2f' prints them exactly.                            *)
(***************************************************************************)
TxtGratuitoDisplay == <<"G","r","a","t","u","i","t","o">>

\* the digits of n, zero-padded on the left to width w
ZeroPad(n, w) ==
    LET t == NatText(n) IN
    [i \in 1..(w - Len(t)) |-> "0"] \o t

\* f"{n:,}": the digits of n in groups of three separated by commas
RECURSIVE Grouped(_)
Grouped(n) ==
    IF n < 1000 THEN NatText(n)
    ELSE Grouped(n \div 1000) \o <<",">> \o ZeroPad(n % 1000, 3)

\* f"R$ {price_float:,.2f}"
UsPriceText(price_float) ==
    LET cents == price_float.num * Pow10(2 - price_float.scale) IN
    <<"R", "$", " ">> \o Grouped(cents \div 100) \o <<".">>
        \o ZeroPad(cents % 100, 2)

\* a slip in the formatting: the separators are left as '.2f' prints them
format_float_to_price_str_us(price_float) ==
    IF IsInf(price_float) THEN TxtUnavailable
    ELSE IF FloatEq(price_float, Dec(0, 0)) THEN TxtGratuitoDisplay
    ELSE UsPriceText(price_float)

format_float_to_price_str(price_float) ==
    IF ~IsInf(price_float) /\ FloatEq(price_float, Dec(0, 0))
    THEN TxtGratuitoDisplay
    ELSE IF IsInf(price_float) THEN TxtUnavailable
    ELSE Replace(Replace(Replace(UsPriceText(price_float),
                                 <<",">>, <<"X">>),
                         <<".">>, <<",">>),
                 <<"X">>, <<".">>)

(***************************************************************************)
(* _clean_game_title                                                       *)
(***************************************************************************)
\* \w of the regular expressions: a letter, a digit or the underscore
IsWordChar(c) ==
    \/ IsDigit(c)
    \/ c = "_"
    \/ \E i \in 1..Len(LowerChars) : LowerChars[i] = c \/ UpperChars[i] = c

\* \b just before position i of s: exactly one of s[i-1], s[i] is a word character
BoundaryAt(s, i) ==
    (i > 1 /\ IsWordChar(s[i - 1])) # (i <= Len(s) /\ IsWordChar(s[i]))

\* the trade mark sign U+2122, one character of a title
TradeMark == "TM"

\* the registered sign U+00AE
Registered == "®"

\* a pattern of keywords_to_remove: its text, and whether \b encloses it
Keyword(t, w) == [text |-> t, word |-> w]

keywords_to_remove ==
    <<Keyword(<<"p","s","4">>, TRUE),
       Keyword(<<"p","s","5">>, TRUE),
       Keyword(<<"p","l","a","y","s","t","a","t","i","o","n">>, TRUE),
       Keyword(<<"d","e","l","u","x","e"," ","e","d","i","t","i","o","n">>, TRUE),
       Keyword(<<"s","p","e","c","i","a","l"," ","e","d","i","t","i","o","n">>, TRUE),
       Keyword(<<"s","t","a","n","d","a","r","d"," ","e","d","i","t","i","o","n">>, TRUE),
       Keyword(<<"u","l","t","i","m","a","t","e"," ","e","d","i","t","i","o","n">>, TRUE),
       Keyword(<<"r","e","m","a","s","t","e","r","e","d">>, TRUE),
       Keyword(<<"g","o","t","y">>, TRUE),
       Keyword(<<"g","a","m","e"," ","o","f"," ","t","h","e"," ","y","e","a","r">>, TRUE),
       Keyword(<<"e","d","i","t","i","o","n">>, TRUE),
       Keyword(<<TradeMark>>, FALSE),
       Keyword(<<Registered>>, FALSE)>>

\* the pattern matches s at position i
MatchAt(s, i, kw) ==
    LET n == Len(kw.text) IN
    /\ i + n - 1 <= Len(s)
    /\ SubSeq(s, i, i + n - 1) = kw.text
    /\ kw.word => (BoundaryAt(s, i) /\ BoundaryAt(s, i + n))

\* re.sub(keyword, '', s) from position i on: leftmost matches, not overlapping
RECURSIVE RegexSub(_, _, _)
RegexSub(s, i, kw) ==
    IF i > Len(s) THEN <<>>
    ELSE IF MatchAt(s, i, kw) THEN RegexSub(s, i + Len(kw.text), kw)
    ELSE <<s[i]>> \o RegexSub(s, i + 1, kw)

\* the loop over keywords_to_remove, from keyword k on
RECURSIVE RemoveKeywords(_, _)
RemoveKeywords(s, k) ==
    IF k > Len(keywords_to_remove) THEN s
    ELSE RemoveKeywords(RegexSub(s, 1, keywords_to_remove[k]), k + 1)

\* re.sub of open .*? close from position i on: from each opening character
\* up to the nearest closing one on the same line
RECURSIVE RemoveDelimited(_, _, _, _)
RemoveDelimited(s, i, open, close) ==
    IF i > Len(s) THEN <<>>
    ELSE LET ends == {j \in (i + 1)..Len(s) :
                        /\ s[j] = close
                        /\ \A k \in (i + 1)..(j - 1) : s[k] # "\n"}
         IN  IF s[i] = open /\ ends # {}
             THEN RemoveDelimited(s, (CHOOSE j \in ends : \A k \in ends : j <= k) + 1,
                                  open, close)
             ELSE <<s[i]>> \o RemoveDelimited(s, i + 1, open, close)

\* re.sub(r'\s+', ' ', s)
RECURSIVE CollapseSpaces(_)
CollapseSpaces(s) ==
    IF s = <<>> THEN <<>>
    ELSE IF Head(s) \in Whitespace
    THEN <<" ">> \o CollapseSpaces(LStrip(s))
    ELSE <<Head(s)>> \o CollapseSpaces(Tail(s))

_clean_game_title(title) ==
    LET lowered == Lower(title)
        no_keywords == RemoveKeywords(lowered, 1)
        no_parens == RemoveDelimited(no_keywords, 1, "(", ")")
        no_brackets == RemoveDelimited(no_parens, 1, "[", "]")
    IN  Strip(CollapseSpaces(no_brackets))

(***************************************************************************)
(* Storefront pages.  A title is represented by the fuzz.ratio score of    *)
(* its cleaned text against the cleaned game name (an integer in 0..100),  *)
(* or NoTitle when the element has no title node.  An optional node is a   *)
(* record [present, text].                                                 *)
(***************************************************************************)
SIMILARITY_THRESHOLD == 70

WindowSize == 5

NoTitle == -1

NoEl == [present |-> FALSE, text |-> <<>>]

El(t) == [present |-> TRUE, text |-> t]

Take(s, n) == SubSeq(s, 1, IF Len(s) < n THEN Len(s) ELSE n)

\* Python None / a value: kinds of titles and urls of a result
Null == [kind |-> "None", idx |-> 0]

Ref(k, i) == [kind |-> k, idx |-> i]

MsgComm ==
    <<"F","a","l","h","a"," ","d","e"," ","c","o","m","u","n","i","c","a",
      "ç","ã","o",".">>

MsgCommFallback ==
    <<"F","a","l","h","a"," ","d","e"," ","c","o","m","u","n","i","c","a",
      "ç","ã","o"," ","n","o"," ","f","a","l","l","b","a","c","k",".">>

MsgLowHead ==
    <<"J","o","g","o"," ","n","ã","o"," ","e","n","c","o","n","t","r","a",
      "d","o"," ","o","u"," ","s","e","m","e","l","h","a","n","ç","a"," ",
      "m","u","i","t","o"," ","b","a","i","x","a"," ","(">>

MsgLowTail == <<"%",")",".">>

MsgLowMid == <<"%"," ","n","a"," ","b","u","s","c","a"," ","e"," ">>

MsgLowFbTail == <<"%"," ","n","o"," ","f","a","l","l","b","a","c","k",")",".">>

\* f"Jogo não encontrado ou semelhança muito baixa ({h}%)."
MsgLow(h) == MsgLowHead \o NatText(h) \o MsgLowTail

\* f"... ({h}% na busca e {f}% no fallback)."
MsgLowFb(h, f) ==
    MsgLowHead \o NatText(h) \o MsgLowMid \o NatText(f) \o MsgLowFbTail

\* a slip at the threshold: strictly above instead of at or above
Confident_strict(score) == score > SIMILARITY_THRESHOLD

\* score >= SIMILARITY_THRESHOLD
Confident(score) == score >= SIMILARITY_THRESHOLD

(***************************************************************************)
(* SteamScraper                                                            *)
(***************************************************************************)
\* a slip in the error record: the price left at 0.0 instead of infinity
Steam_format_error_zero(message) ==
    [found |-> FALSE, title |-> Null, price_str |-> message,
     price_float |-> Dec(0, 0), url |-> Null, similarity_score |-> 0]

Steam_format_error(message) ==
    [found |-> FALSE, title |-> Null, price_str |-> message,
     price_float |-> Inf, url |-> Null, similarity_score |-> 0]

\* what a lookup hands back: the result (or the exception it raised), the
\* fetches it issued in order, and how it got there
Returned(res, fetched, how, b) ==
    [result |-> res, raised |-> FALSE, fetches |-> fetched, path |-> how, best |-> b]

Raised(fetched, b) ==
    [result |-> Steam_format_error(<<>>), raised |-> TRUE, fetches |-> fetched,
     path |-> "KeyError", best |-> b]

\* no lookup made yet
NoLookup ==
    [source |-> "none", out |-> Returned(Steam_format_error(<<>>), <<>>, "none", 0)]

\* a slip in the tie-break: a later equal score replaces the best
SteamBetter_or_equal(score, highest) == score >= highest

\* score > highest_score_from_search
SteamBetter(score, highest) == score > highest

\* the loop over search_results: [best, highest] after elements i..Len
RECURSIVE SteamScan(_, _, _, _)
SteamScan(results, i, best, highest) ==
    IF i > Len(results) THEN [best |-> best, highest |-> highest]
    ELSE IF results[i].title # NoTitle /\ SteamBetter(results[i].title, highest)
    THEN SteamScan(results, i + 1, i, results[i].title)
    ELSE SteamScan(results, i + 1, best, highest)

\* price_text = el.text.strip().split("R$")[-1].strip();
\* f"R$ {price_text}" if price_text else "Preço indisponível"
SteamPriceStr(el) ==
    IF ~el.present THEN TxtUnavailable
    ELSE LET price_text == Strip(SplitLast(Strip(el.text), TxtReais))
         IN  IF price_text # <<>> THEN TxtReais \o <<" ">> \o price_text
             ELSE TxtUnavailable

\* a slip in the fallback: the href of the first link is not checked
SteamFallback_unchecked(resp, highest, b) ==
    LET both == <<Ref("search", 0), Ref("detail", 1)>> IN
    IF resp.results # <<>>
    THEN IF ~resp.fb.ok
         THEN Returned(Steam_format_error(MsgCommFallback), both, "transport", b)
         ELSE IF resp.fb.title # NoTitle /\ Confident(resp.fb.title)
         THEN Returned([found |-> TRUE, title |-> Ref("fallback", 1),
                        price_str |-> SteamPriceStr(resp.fb.price),
                        price_float |-> clean_price_to_float(SteamPriceStr(resp.fb.price)),
                        url |-> Ref("href", 1), similarity_score |-> resp.fb.title],
                       both, "fallback", b)
         ELSE Returned(Steam_format_error(MsgLowFb(highest,
                            IF resp.fb.title # NoTitle THEN resp.fb.title ELSE 0)),
                       both, "nomatch", b)
    ELSE Returned(Steam_format_error(MsgLow(highest)), <<Ref("search", 0)>>, "nomatch", b)

SteamFallback(resp, highest, b) ==
    LET searched == <<Ref("search", 0)>>
        both == <<Ref("search", 0), Ref("detail", 1)>>
    IN
    IF resp.results # <<>> /\ resp.results[1].href
    THEN IF ~resp.fb.ok
         THEN Returned(Steam_format_error(MsgCommFallback), both, "transport", b)
         ELSE LET fallback_score ==
                      IF resp.fb.title # NoTitle THEN resp.fb.title ELSE 0
                  fallback_price_str == SteamPriceStr(resp.fb.price)
              IN  IF resp.fb.title # NoTitle /\ Confident(fallback_score)
                  THEN Returned([found |-> TRUE,
                                 title |-> Ref("fallback", 1),
                                 price_str |-> fallback_price_str,
                                 price_float |-> clean_price_to_float(fallback_price_str),
                                 url |-> Ref("href", 1),
                                 similarity_score |-> fallback_score],
                                both, "fallback", b)
                  ELSE Returned(Steam_format_error(MsgLowFb(highest, fallback_score)),
                                both, "nomatch", b)
    ELSE Returned(Steam_format_error(MsgLow(highest)), searched, "nomatch", b)

\* what follows a successful search fetch: the scan of the first 5 results,
\* the confident match, or else the fallback
SteamAfterSearch(resp) ==
    LET searched == <<Ref("search", 0)>>
        search_results == Take(resp.results, WindowSize)
        scan == SteamScan(search_results, 1, 0, 0)
    IN  IF scan.best # 0 /\ Confident(scan.highest)
        THEN LET el == search_results[scan.best]
                 final_price_str == SteamPriceStr(el.price)
             IN  IF ~el.href THEN Raised(searched, scan.best)
                 ELSE Returned([found |-> TRUE,
                                title |-> Ref("result", scan.best),
                                price_str |-> final_price_str,
                                price_float |-> clean_price_to_float(final_price_str),
                                url |-> Ref("href", scan.best),
                                similarity_score |-> scan.highest],
                               searched, "primary", scan.best)
        ELSE SteamFallback(resp, scan.highest, scan.best)

\* a slip in the transport handling: the RequestException of the search
\* fetch is not caught and reaches the caller
SteamSearchGamePrice_propagates(resp) ==
    IF ~resp.ok
    THEN [Raised(<<Ref("search", 0)>>, 0) EXCEPT !.path = "transport"]
    ELSE SteamAfterSearch(resp)

SteamSearchGamePrice(resp) ==
    IF ~resp.ok
    THEN Returned(Steam_format_error(MsgComm), <<Ref("search", 0)>>, "transport", 0)
    ELSE SteamAfterSearch(resp)

(***************************************************************************)
(* PsnScraper                                                              *)
(***************************************************************************)
Psn_format_error(message) ==
    [found |-> FALSE, title |-> Null, price_str |-> message,
     price_float |-> Inf, url |-> Null, similarity_score |-> 0]

\* best_match_tile: NoBest (None), Soup (the page itself), or a tile's position
NoBest == -1

Soup == 0

\* score > highest_score
PsnBetter(score, highest) == score > highest

\* the redirected-page check that precedes the loop over the tiles
PsnPageCheck(resp) ==
    IF resp.page_title # NoTitle /\ Confident(resp.page_title)
    THEN [best |-> Soup, highest |-> resp.page_title, game_url |-> Ref("search_url", 0)]
    ELSE [best |-> NoBest, highest |-> 0, game_url |-> Ref("search_url", 0)]

\* the loop over all_product_tiles: [best, highest, game_url] after tiles i..Len
RECURSIVE PsnScan(_, _, _)
PsnScan(tiles, i, st) ==
    IF i > Len(tiles) THEN st
    ELSE IF tiles[i].title # NoTitle /\ PsnBetter(tiles[i].title, st.highest)
    THEN PsnScan(tiles, i + 1,
                 [best |-> i, highest |-> tiles[i].title,
                  game_url |-> IF tiles[i].link THEN Ref("tile_link", i)
                               ELSE st.game_url])
    ELSE PsnScan(tiles, i + 1, st)

\* price_str = element.text.strip() of the first price selector that matches
PsnPriceStr(el) == IF el.present THEN Strip(el.text) ELSE TxtUnavailable

PsnSearchGamePrice(resp) ==
    LET searched == <<Ref("search", 0)>> IN
    IF ~resp.ok
    THEN Returned(Psn_format_error(MsgComm), searched, "transport", NoBest)
    ELSE LET all_product_tiles == Take(resp.tiles, WindowSize)
             st == PsnScan(all_product_tiles, 1, PsnPageCheck(resp))
         IN  IF st.best = NoBest \/ ~Confident(st.highest)
             THEN Returned(Psn_format_error(MsgLow(st.highest)), searched,
                           "nomatch", st.best)
             ELSE LET price_str ==
                          IF st.best = Soup THEN PsnPriceStr(resp.page_price)
                          ELSE PsnPriceStr(all_product_tiles[st.best].price)
                  IN  Returned([found |-> TRUE,
                                title |-> IF st.best = Soup THEN Ref("page", 0)
                                          ELSE Ref("tile", st.best),
                                price_str |-> price_str,
                                price_float |-> clean_price_to_float(price_str),
                                url |-> st.game_url,
                                similarity_score |-> st.highest],
                               searched, "primary", st.best)

(***************************************************************************)
(* The worksheet.  Row 1 is the header; sheetRows[r] is sheet row r + 1.   *)
(* A cell beyond the stored length of its row is empty.                    *)
(***************************************************************************)
ColNome == "Nome"

ColSteamAtual == "Steam Preco Atual"

ColSteamHist == "Steam Menor Preco Historico"

ColPsnAtual == "PSN Preco Atual"

ColPsnHist == "PSN Menor Preco Historico"

ColUltima == "Ultima Atualizacao"

\* a column of the user's that the program does not own
ColNota == "Nota"

target_gsheet_columns ==
    <<ColSteamAtual, ColSteamHist, ColPsnAtual, ColPsnHist, ColUltima>>

SeqRange(s) == {s[i] : i \in 1..Len(s)}

\* list.index(x) + 1: the 1-based position of the first x
IndexOf(s, x) == CHOOSE i \in 1..Len(s) : s[i] = x /\ \A j \in 1..(i - 1) : s[j] # x

CellAt(row, c) == IF c <= Len(row) THEN row[c] ELSE EmptyText

\* the cell of data row r under the first column headed name ("" if none)
StoredCell(header, rows, r, name) ==
    IF name \in SeqRange(header) THEN CellAt(rows[r], IndexOf(header, name))
    ELSE EmptyText

\* row with cell c set to v, padded with empty cells up to c
SetCell(row, c, v) ==
    [k \in 1..(IF c > Len(row) THEN c ELSE Len(row)) |->
        IF k = c THEN v ELSE CellAt(row, k)]

\* worksheet.get_all_records(): one record per data row, keyed by the header
get_all_records(header, rows) ==
    [r \in 1..Len(rows) |->
        [name \in SeqRange(header) |-> CellAt(rows[r], IndexOf(header, name))]]

(***************************************************************************)
(* The process-wide caches                                                 *)
(***************************************************************************)
_cache_ttl_seconds == 300

NoData == [present |-> FALSE, data |-> <<>>]

\* sheet_name in _data_cache and (now - _last_cache_update) < _cache_ttl_seconds
CacheHit(cache, last, t) == cache.present /\ (t - last) < _cache_ttl_seconds

(***************************************************************************)
(* run_scraper, up to the item loop                                        *)
(***************************************************************************)
\* df[col] = 'Preço indisponível' for every target column the data lacks
WithDefaults(data) ==
    [r \in 1..Len(data) |->
        [name \in (DOMAIN data[r]) \cup SeqRange(target_gsheet_columns) |->
            IF name \in DOMAIN data[r] THEN data[r][name] ELSE TxtUnavailable]]

\* gsheet_headers after appending the target columns it lacks, in order
RECURSIVE EnsureColumns(_, _)
EnsureColumns(headers, k) ==
    IF k > Len(target_gsheet_columns) THEN headers
    ELSE IF target_gsheet_columns[k] \in SeqRange(headers)
    THEN EnsureColumns(headers, k + 1)
    ELSE EnsureColumns(Append(headers, target_gsheet_columns[k]), k + 1)

ColIndices(headers) ==
    [name \in SeqRange(target_gsheet_columns) |-> IndexOf(headers, name)]

\* an entry of the trace: what was done, for which row, and how it ended
Event(e, r, h) == [ev |-> e, row |-> r, how |-> h]

\* pd.isna(game_name) or str(game_name).strip() == ''
IsBlankName(game_name) == game_name = NonString \/ Strip(game_name) = <<>>

\* a slip in the loop: the sheet is updated after each item
LoopPc_per_row(frame, i) == "write"

\* a slip at the outermost boundary: the exception leaves run_scraper
OnException_escapes == "crashed"

\* except Exception at the end of run_scraper: the error is printed and the
\* function returns
OnException == "done"

\* where the item loop stands once its index is i
LoopPc(frame, i) == IF i > Len(frame) THEN "write" ELSE "steam"

StartRun(d, openOk, readOk, hdrOk) ==
    /\ pc = "idle"
    /\ runs' = runs + 1
    /\ now' = now + d
    /\ LET hit == CacheHit(dataCache, lastCacheUpdate, now')
           opened == sheetCache \/ openOk
           fresh == ~hit /\ opened /\ readOk
           data == IF hit THEN dataCache.data
                   ELSE IF fresh THEN get_all_records(sheetHeader, sheetRows)
                   ELSE <<>>
           frame == WithDefaults(data)
           headers == EnsureColumns(sheetHeader, 1)
       IN
       /\ sheetCache' = (sheetCache \/ (~hit /\ openOk))
       /\ dataCache' = IF fresh THEN [present |-> TRUE, data |-> data] ELSE dataCache
       /\ lastCacheUpdate' = IF fresh THEN now' ELSE lastCacheUpdate
       /\ IF data = <<>>
          THEN /\ pc' = "done"
               /\ trace' = <<Event("no data", 0,
                                   IF ~hit /\ ~opened THEN "open failed"
                                   ELSE IF ~hit /\ ~readOk THEN "read failed"
                                   ELSE "empty")>>
               /\ UNCHANGED <<sheetHeader, df, col_indices, index>>
          ELSE IF ColNome \notin DOMAIN data[1]
          THEN /\ pc' = "done"
               /\ trace' = <<Event(IF hit THEN "cached" ELSE "read", 0, "ok"),
                             Event("no Nome", 0, "return")>>
               /\ UNCHANGED <<sheetHeader, df, col_indices, index>>
          ELSE IF ~hdrOk
          THEN /\ pc' = OnException
               /\ trace' = <<Event(IF hit THEN "cached" ELSE "read", 0, "ok"),
                             Event("row_values", 0, "exception")>>
               /\ df' = frame
               /\ UNCHANGED <<sheetHeader, col_indices, index>>
          ELSE /\ sheetHeader' = headers
               /\ df' = frame
               /\ col_indices' = ColIndices(headers)
               /\ index' = 1
               /\ pc' = LoopPc(frame, 1)
               /\ trace' = <<Event(IF hit THEN "cached" ELSE "read", 0, "ok")>>
    /\ UNCHANGED <<sheetRows, lastResp, lastOut>>

(***************************************************************************)
(* The item loop                                                           *)
(***************************************************************************)
\* a slip in the reconciliation: the historical column follows the current one
Reconcile_overwrites(row, result, atual, hist) ==
    [row EXCEPT ![atual] = result.price_str, ![hist] = result.price_str]

\* the historical-minimum reconciliation of one source for one row:
\* df.at[index, atual] = price_str, then the if / elif / else on the floats
Reconcile(row, result, atual, hist) ==
    LET current_price_float == result.price_float
        historical_price_float == clean_price_to_float(row[hist])
    IN  IF FloatLess(current_price_float, historical_price_float)
        THEN [row EXCEPT ![atual] = result.price_str, ![hist] = result.price_str]
        ELSE IF IsInf(historical_price_float) /\ result.found
        THEN [row EXCEPT ![atual] = result.price_str, ![hist] = result.price_str]
        ELSE [row EXCEPT ![atual] = result.price_str]

\* datetime.now().strftime('%Y-%m-%d'): the day, as a text
current_date(t) == NatText(t \div 86400)

SkipRow ==
    /\ pc = "steam"
    /\ IsBlankName(df[index][ColNome])
    /\ index' = index + 1
    /\ pc' = LoopPc(df, index + 1)
    /\ trace' = Append(trace, Event("skip", index, "ok"))
    /\ UNCHANGED <<sheetHeader, sheetRows, sheetCache, dataCache, lastCacheUpdate,
                   now, runs, df, col_indices, lastResp, lastOut>>

SteamStep(resp) ==
    /\ pc = "steam"
    /\ ~IsBlankName(df[index][ColNome])
    /\ LET out == SteamSearchGamePrice(resp) IN
       /\ lastOut' = [source |-> "steam", out |-> out]
       /\ IF out.raised
          THEN /\ pc' = OnException
               /\ trace' = Append(trace, Event("steam", index, out.path))
               /\ df' = df
          ELSE /\ pc' = "psn"
               /\ trace' = Append(trace, Event("steam", index, out.path))
               /\ df' = [df EXCEPT ![index] =
                            Reconcile(df[index], out.result, ColSteamAtual, ColSteamHist)]
    /\ UNCHANGED <<sheetHeader, sheetRows, sheetCache, dataCache, lastCacheUpdate,
                   now, runs, col_indices, index, lastResp>>

PsnStep(resp) ==
    /\ pc = "psn"
    /\ LET out == PsnSearchGamePrice(resp) IN
       /\ lastOut' = [source |-> "psn", out |-> out]
       /\ df' = [df EXCEPT ![index] =
                    [Reconcile(df[index], out.result, ColPsnAtual, ColPsnHist)
                        EXCEPT ![ColUltima] = current_date(now)]]
    /\ index' = index + 1
    /\ pc' = LoopPc(df, index + 1)
    /\ trace' = Append(trace, Event("psn", index, lastOut'.out.path))
    /\ UNCHANGED <<sheetHeader, sheetRows, sheetCache, dataCache, lastCacheUpdate,
                   now, runs, col_indices, lastResp>>

(***************************************************************************)
(* The batch write                                                         *)
(***************************************************************************)
\* updates: the five target values of every row of df, in target order
Updates(frame) ==
    [r \in 1..Len(frame) |->
        [k \in 1..Len(target_gsheet_columns) |-> frame[r][target_gsheet_columns[k]]]]

\* worksheet.update("<start_col>2:<end_col><end_row>", updates): the values
\* are laid out from the top-left cell of the range; values that do not fit
\* in the range are refused by the API (the call raises)
RangeLo(ci) ==
    IF ci[target_gsheet_columns[1]] <= ci[target_gsheet_columns[Len(target_gsheet_columns)]]
    THEN ci[target_gsheet_columns[1]]
    ELSE ci[target_gsheet_columns[Len(target_gsheet_columns)]]

RangeHi(ci) ==
    IF ci[target_gsheet_columns[1]] <= ci[target_gsheet_columns[Len(target_gsheet_columns)]]
    THEN ci[target_gsheet_columns[Len(target_gsheet_columns)]]
    ELSE ci[target_gsheet_columns[1]]

RangeFits(ci) == RangeHi(ci) - RangeLo(ci) + 1 >= Len(target_gsheet_columns)

RECURSIVE WriteRow(_, _, _, _)
WriteRow(row, values, lo, k) ==
    IF k > Len(values) THEN row
    ELSE WriteRow(SetCell(row, lo + k - 1, values[k]), values, lo, k + 1)

UpdateRange(rows, ci, updates) ==
    [r \in 1..Len(rows) |->
        IF r <= Len(updates) THEN WriteRow(rows[r], updates[r], RangeLo(ci), 1)
        ELSE rows[r]]

BatchWrite(apiOk) ==
    /\ pc = "write"
    /\ IF apiOk /\ RangeFits(col_indices)
       THEN /\ pc' = "done"
            /\ sheetRows' = UpdateRange(sheetRows, col_indices, Updates(df))
            /\ trace' = Append(trace, Event("write", 0, "ok"))
       ELSE /\ pc' = OnException
            /\ sheetRows' = sheetRows
            /\ trace' = Append(trace, Event("write", 0, "exception"))
    /\ UNCHANGED <<sheetHeader, sheetCache, dataCache, lastCacheUpdate, now, runs,
                   df, col_indices, index, lastResp, lastOut>>

\* run_scraper returns: its locals are gone, the caches and the sheet stay
Return ==
    /\ pc = "done"
    /\ pc' = "idle"
    /\ df' = <<>>
    /\ col_indices' = ColIndices(EnsureColumns(sheetHeader, 1))
    /\ index' = 1
    /\ lastOut' = NoLookup
    /\ trace' = <<>>
    /\ UNCHANGED <<sheetHeader, sheetRows, sheetCache, dataCache, lastCacheUpdate,
                   now, runs, lastResp>>

(***************************************************************************)
(* Bounds and inputs                                                       *)
(***************************************************************************)
MaxRows == 2

MaxRuns == 2

MaxResults == 2

TxtPrice59 == <<"R","$"," ","5","9",",","9","0">>

TxtPrice65 == <<"R","$"," ","6","5",",","0","0">>

TxtGame == <<"H","a","l","o">>

TxtNota == <<"o","k">>

\* the Nome cells of the sheets considered: empty, blank, a game
Names == {EmptyText, <<" ">>, TxtGame}

\* the header rows considered
Layouts ==
    { <<ColNome>>,
      <<ColNome, ColSteamAtual, ColSteamHist, ColPsnAtual, ColPsnHist, ColUltima>>,
      <<ColNome, ColSteamAtual, ColNota>>,
      <<ColNome, ColUltima, ColSteamAtual, ColSteamHist, ColPsnAtual, ColPsnHist>> }

\* seconds between two invocations in one process: within the TTL, or not
Delays == {_cache_ttl_seconds \div 5, _cache_ttl_seconds}

\* fuzz.ratio scores considered
Scores == {0, SIMILARITY_THRESHOLD - 1, SIMILARITY_THRESHOLD, 100}

SeqsUpTo(S, n) == UNION {[1..k -> S] : k \in 0..n}

FbFail == [ok |-> FALSE, title |-> NoTitle, price |-> NoEl]

SteamFail == [ok |-> FALSE, results |-> <<>>, fb |-> FbFail]

SteamPage(results, fb) == [ok |-> TRUE, results |-> results, fb |-> fb]

SteamEl(t, h, p) == [title |-> t, href |-> h, price |-> p]

PsnFail == [ok |-> FALSE, page_title |-> NoTitle, page_price |-> NoEl, tiles |-> <<>>]

PsnPage(t, p, tiles) == [ok |-> TRUE, page_title |-> t, page_price |-> p, tiles |-> tiles]

PsnTile(t, l, p) == [title |-> t, link |-> l, price |-> p]

\* storefront responses met by run_scraper in Spec: a transport failure, a
\* confident first result, a weak first result whose detail page fails, and
\* a confident first result without href
RunSteamResponses ==
    {SteamFail,
     SteamPage(<<SteamEl(100, TRUE, El(TxtPrice59))>>, FbFail),
     SteamPage(<<SteamEl(SIMILARITY_THRESHOLD - 1, TRUE, NoEl)>>, FbFail),
     SteamPage(<<SteamEl(100, FALSE, NoEl)>>, FbFail)}

RunPsnResponses ==
    {PsnFail,
     PsnPage(NoTitle, NoEl, <<PsnTile(100, TRUE, El(TxtPrice59))>>),
     PsnPage(NoTitle, NoEl, <<>>)}

NoResponse == [source |-> "none", resp |-> SteamFail]

\* the data row of a sheet with the given header: the name, a note, and
\* output cells that no run has filled yet
InitRow(header, name) ==
    [c \in 1..Len(header) |->
        IF header[c] = ColNome THEN name
        ELSE IF header[c] = ColNota THEN TxtNota
        ELSE EmptyText]

Init ==
    /\ sheetHeader \in Layouts
    /\ \E names \in SeqsUpTo(Names, MaxRows) :
          /\ names # <<>>
          /\ sheetRows = [r \in 1..Len(names) |-> InitRow(sheetHeader, names[r])]
    /\ sheetCache = FALSE
    /\ dataCache = NoData
    /\ lastCacheUpdate = 0
    /\ now = 0
    /\ pc = "idle"
    /\ runs = 0
    /\ df = <<>>
    /\ col_indices = ColIndices(EnsureColumns(sheetHeader, 1))
    /\ index = 1
    /\ lastResp = NoResponse
    /\ lastOut = NoLookup
    /\ trace = <<>>

\* the script: one process, one call of run_scraper
Next ==
    \/ /\ runs = 0
       /\ \E d \in Delays, openOk \in BOOLEAN, readOk \in BOOLEAN, hdrOk \in BOOLEAN :
             StartRun(d, openOk, readOk, hdrOk)
    \/ SkipRow
    \/ \E resp \in RunSteamResponses : SteamStep(resp)
    \/ \E resp \in RunPsnResponses : PsnStep(resp)
    \/ \E apiOk \in BOOLEAN : BatchWrite(apiOk)
    \/ Return

Spec == Init /\ [][Next]_vars

(***************************************************************************)
(* SpecHistory: one wishlist item followed over several calls of           *)
(* run_scraper, in one process (the caches live on) or across processes    *)
(* (Restart empties them), with prices that move between calls.            *)
(***************************************************************************)
CanonicalHeader ==
    <<ColNome, ColSteamAtual, ColSteamHist, ColPsnAtual, ColPsnHist, ColUltima>>

\* a new process: the module-level caches start empty
Restart ==
    /\ pc = "idle"
    /\ runs > 0
    /\ sheetCache
    /\ sheetCache' = FALSE
    /\ dataCache' = NoData
    /\ lastCacheUpdate' = 0
    /\ UNCHANGED <<sheetHeader, sheetRows, now, pc, runs, df, col_indices, index,
                   lastResp, lastOut, trace>>

HistSteamResponses ==
    {SteamFail}
    \cup {SteamPage(<<SteamEl(100, TRUE, p)>>, FbFail) :
              p \in {NoEl, El(TxtPrice59), El(TxtPrice65)}}

HistPsnResponses ==
    {PsnFail}
    \cup {PsnPage(NoTitle, NoEl, <<PsnTile(100, TRUE, p)>>) :
              p \in {NoEl, El(TxtPrice59), El(TxtPrice65)}}

InitHistory ==
    /\ sheetHeader \in {<<ColNome>>, CanonicalHeader}
    /\ sheetRows = <<InitRow(sheetHeader, TxtGame)>>
    /\ sheetCache = FALSE
    /\ dataCache = NoData
    /\ lastCacheUpdate = 0
    /\ now = 0
    /\ pc = "idle"
    /\ runs = 0
    /\ df = <<>>
    /\ col_indices = ColIndices(EnsureColumns(sheetHeader, 1))
    /\ index = 1
    /\ lastResp = NoResponse
    /\ lastOut = NoLookup
    /\ trace = <<>>

NextHistory ==
    \/ /\ runs < MaxRuns
       /\ \E d \in Delays : StartRun(d, TRUE, TRUE, TRUE)
    \/ \E resp \in HistSteamResponses : SteamStep(resp)
    \/ \E resp \in HistPsnResponses : PsnStep(resp)
    \/ BatchWrite(TRUE)
    \/ Return
    \/ Restart

SpecHistory == InitHistory /\ [][NextHistory]_vars

(***************************************************************************)
(* SpecLookup: search_game_price of either scraper, called on its own      *)
(* against every storefront response within the bounds.                    *)
(***************************************************************************)
\* price nodes of a detail page or a redirected page; listing entries and
\* tiles all carry a price (listings without one are met in SpecHistory)
LookupPriceEls == {NoEl, El(TxtPrice59)}

TitleScores == Scores \cup {NoTitle}

SteamEls == [title : TitleScores, href : BOOLEAN, price : {El(TxtPrice59)}]

SteamFbs ==
    {FbFail} \cup [ok : {TRUE}, title : TitleScores, price : LookupPriceEls]

\* a listing longer than the window, whose only confident entry lies outside it
LongSteamResults ==
    [k \in 1..(WindowSize + 1) |->
        SteamEl(IF k > WindowSize THEN 100 ELSE SIMILARITY_THRESHOLD - 1, TRUE,
                El(TxtPrice59))]

LookupSteamResponses ==
    {SteamFail}
    \cup {SteamPage(r, f) : r \in SeqsUpTo(SteamEls, MaxResults), f \in SteamFbs}
    \cup {SteamPage(LongSteamResults, f) : f \in SteamFbs}

PsnTiles == [title : TitleScores, link : BOOLEAN, price : {El(TxtPrice59)}]

LongPsnTiles ==
    [k \in 1..(WindowSize + 1) |->
        PsnTile(IF k > WindowSize THEN 100 ELSE SIMILARITY_THRESHOLD - 1, TRUE,
                El(TxtPrice59))]

LookupPsnResponses ==
    {PsnFail}
    \cup {PsnPage(t, p, tiles) : t \in TitleScores, p \in LookupPriceEls,
                                 tiles \in SeqsUpTo(PsnTiles, MaxResults)}
    \cup {PsnPage(NoTitle, NoEl, LongPsnTiles)}

SteamLookup(resp) ==
    /\ pc = "idle"
    /\ lastOut = NoLookup
    /\ lastResp' = [source |-> "steam", resp |-> resp]
    /\ lastOut' = [source |-> "steam", out |-> SteamSearchGamePrice(resp)]
    /\ UNCHANGED <<sheetHeader, sheetRows, sheetCache, dataCache, lastCacheUpdate,
                   now, pc, runs, df, col_indices, index, trace>>

PsnLookup(resp) ==
    /\ pc = "idle"
    /\ lastOut = NoLookup
    /\ lastResp' = [source |-> "psn", resp |-> resp]
    /\ lastOut' = [source |-> "psn", out |-> PsnSearchGamePrice(resp)]
    /\ UNCHANGED <<sheetHeader, sheetRows, sheetCache, dataCache, lastCacheUpdate,
                   now, pc, runs, df, col_indices, index, trace>>

InitLookup ==
    /\ sheetHeader = CanonicalHeader
    /\ sheetRows = <<InitRow(sheetHeader, TxtGame)>>
    /\ sheetCache = FALSE
    /\ dataCache = NoData
    /\ lastCacheUpdate = 0
    /\ now = 0
    /\ pc = "idle"
    /\ runs = 0
    /\ df = <<>>
    /\ col_indices = ColIndices(sheetHeader)
    /\ index = 1
    /\ lastResp = NoResponse
    /\ lastOut = NoLookup
    /\ trace = <<>>

NextLookup ==
    \/ /\ lastOut = NoLookup
       /\ \E resp \in LookupPsnResponses : PsnLookup(resp)
    \/ /\ lastOut = NoLookup
       /\ \E resp \in LookupSteamResponses : SteamLookup(resp)

SpecLookup == InitLookup /\ [][NextLookup]_vars

(***************************************************************************)
(* SpecCodec: the pure functions of the module applied to bounded inputs:  *)
(* format_float_to_price_str and clean_price_to_float on prices and price  *)
(* texts, _clean_game_title on titles, each possibly applied to the        *)
(* result of the other.  lastResp holds the input, lastOut the result.     *)
(***************************************************************************)
MaxPrice == 1100

MaxTokens == 3

\* prices above a million, which format with two thousands separators
BigPrices == {1000000, 1234567, 20000000}

\* the canonical prices: free, the non-negative integers, unavailable
CanonicalPrices ==
    {Inf} \cup {Dec(n, 0) : n \in (0..MaxPrice) \cup BigPrices}

\* prices with centavos, as the storefronts show them
CentPrices == {Dec(5990, 2), Dec(19990, 2), Dec(123456, 2), Dec(1, 2), Dec(1995, 1)}

\* a price text together with the amount it shows
PriceInput(t, a) == [text |-> t, amount |-> a]

\* the amount r reais and c centavos written the Brazilian way, after the
\* given prefix
BrlText(prefix, r, c) ==
    prefix \o Replace(Grouped(r), <<",">>, <<".">>) \o <<",">> \o ZeroPad(c, 2)

PricePrefixes == {<<>>, <<"R", "$", " ">>, <<"r", "$">>, <<" ", "R", "$", " ", " ">>}

PriceTexts ==
    {PriceInput(BrlText(prefix, r, c), Dec(100 * r + c, 2)) :
        prefix \in PricePrefixes, r \in {0, 59, 199, 1234}, c \in {0, 5, 90, 99}}
    \cup {PriceInput(prefix \o NatText(r), Dec(r, 0)) :
            prefix \in PricePrefixes, r \in {0, 7, 200}}

\* the pieces titles are made of
TitleFragments ==
    { <<"p","s">>, <<"4">>, <<"(","x",")">>, <<"g","o">>, <<TradeMark>>,
      <<"t","y">>, <<" ">>, <<"P","S","4">>, <<"H","a","l","o">>,
      <<"[","x","]">> }

RECURSIVE Concat(_)
Concat(parts) == IF parts = <<>> THEN <<>> ELSE Head(parts) \o Concat(Tail(parts))

Titles == {Concat(parts) : parts \in SeqsUpTo(TitleFragments, MaxTokens)}

Fresh == lastOut.source = "none"

Apply(kind, input, how, result) ==
    /\ pc = "idle"
    /\ lastResp' = [source |-> kind, resp |-> input]
    /\ lastOut' = [source |-> how, out |-> result]
    /\ UNCHANGED <<sheetHeader, sheetRows, sheetCache, dataCache, lastCacheUpdate,
                   now, pc, runs, df, col_indices, index, trace>>

\* format_float_to_price_str(v)
FormatPrice(v) ==
    /\ Fresh
    /\ Apply("float", v, "format", format_float_to_price_str(v))

\* clean_price_to_float of the text just formatted
ParseFormatted ==
    /\ lastOut.source = "format"
    /\ Apply("float", lastResp.resp, "format, parse", clean_price_to_float(lastOut.out))

\* clean_price_to_float(t.text)
ParsePrice(t) ==
    /\ Fresh
    /\ Apply("text", t, "parse", clean_price_to_float(t.text))

\* _clean_game_title(x)
CleanTitle(x) ==
    /\ Fresh
    /\ Apply("title", x, "clean", _clean_game_title(x))

\* _clean_game_title of the title just cleaned
CleanAgain ==
    /\ lastOut.source = "clean"
    /\ Apply("title", lastResp.resp, "clean, clean", _clean_game_title(lastOut.out))

InitCodec == InitLookup

NextCodec ==
    \/ \E v \in CanonicalPrices \cup CentPrices : FormatPrice(v)
    \/ ParseFormatted
    \/ \E t \in PriceTexts : ParsePrice(t)
    \/ \E x \in Titles : CleanTitle(x)
    \/ CleanAgain

SpecCodec == InitCodec /\ [][NextCodec]_vars

(***************************************************************************)
(* Properties of search_game_price (checked under SpecLookup)              *)
(***************************************************************************)
Looked == lastOut.source # "none" /\ lastResp.source = lastOut.source

Out == lastOut.out

Res == lastOut.out.result

Resp == lastResp.resp

SetMax(S) == CHOOSE m \in S : \A x \in S : x <= m

\* the titles fuzzy-matched by SteamScraper: those of the first 5 results
SteamWindow == Take(Resp.results, WindowSize)

SteamTitles == {SteamWindow[i].title : i \in 1..Len(SteamWindow)}

\* the titles fuzzy-matched by PsnScraper: the page title and the first 5 tiles
PsnWindow == Take(Resp.tiles, WindowSize)

PsnTitles == {PsnWindow[i].title : i \in 1..Len(PsnWindow)} \cup {Resp.page_title}

SearchOnly == <<Ref("search", 0)>>

SearchThenFirstDetail == <<Ref("search", 0), Ref("detail", 1)>>

\* C1: every result a scraper returns with found = FALSE has price_float =
\* +infinity, title = None, url = None and similarity_score = 0, whatever
\* the path that produced it.
C1_NotFoundShape ==
    (lastOut.source # "none" /\ ~Out.raised /\ ~Res.found)
        => /\ Res.price_float = Inf
           /\ Res.title = Null
           /\ Res.url = Null
           /\ Res.similarity_score = 0

\* a Steam lookup whose fallback page was fetched and still gave no match
C1_Witness ==
    /\ Looked /\ lastOut.source = "steam"
    /\ ~Out.raised /\ ~Res.found
    /\ Out.path = "nomatch" /\ Out.fetches = SearchThenFirstDetail
    /\ Res.price_float = Inf

\* C5 as claimed: in both scrapers, a successful search with at least one
\* candidate, every candidate carrying a title that scores below 70, is
\* followed by exactly one more fetch, of the first candidate's detail page.
C5_FallbackBothStores ==
    /\ (Looked /\ lastOut.source = "steam" /\ Resp.ok /\ Resp.results # <<>>
            /\ \A t \in SteamTitles : t \in 0..(SIMILARITY_THRESHOLD - 1))
        => Out.fetches = SearchThenFirstDetail
    /\ (Looked /\ lastOut.source = "psn" /\ Resp.ok /\ Resp.tiles # <<>>
            /\ Resp.page_title < SIMILARITY_THRESHOLD
            /\ \A i \in 1..Len(PsnWindow) :
                  PsnWindow[i].title \in 0..(SIMILARITY_THRESHOLD - 1))
        => Out.fetches = SearchThenFirstDetail

\* C5 amended: SteamScraper issues exactly one more fetch, of the first
\* result's detail page, when the first result link has an href, and none
\* when it has not; PsnScraper has no fallback: it never fetches anything
\* but the search page and returns not-found.
C5_FallbackSteamOnly ==
    /\ (Looked /\ lastOut.source = "steam" /\ Resp.ok /\ Resp.results # <<>>
            /\ \A t \in SteamTitles : t < SIMILARITY_THRESHOLD)
        => IF Resp.results[1].href
           THEN Out.fetches = SearchThenFirstDetail
           ELSE Out.fetches = SearchOnly /\ ~Res.found
    /\ (Looked /\ lastOut.source = "psn")
        => /\ Out.fetches = SearchOnly
           /\ (Resp.ok /\ \A t \in PsnTitles : t < SIMILARITY_THRESHOLD) => ~Res.found

\* two Steam results, both just below the threshold: the fallback page is
\* fetched once
C5_Witness ==
    /\ Looked /\ lastOut.source = "steam" /\ Resp.ok
    /\ Len(Resp.results) = 2
    /\ SteamTitles = {SIMILARITY_THRESHOLD - 1}
    /\ Out.fetches = SearchThenFirstDetail

C10_TieBreak ==
    /\ (Looked /\ lastOut.source = "steam" /\ Resp.ok /\ Out.best # 0)
        => /\ Out.best \in 1..Len(SteamWindow)
           /\ SteamWindow[Out.best].title = SetMax(SteamTitles)
           /\ \A j \in 1..(Out.best - 1) :
                 SteamWindow[j].title < SteamWindow[Out.best].title
           /\ (Out.path = "primary") => Res.title = Ref("result", Out.best)
    /\ (Looked /\ lastOut.source = "psn" /\ Resp.ok /\ Res.found)
        => IF Out.best = Soup
           THEN /\ Resp.page_title = SetMax(PsnTitles)
                /\ Res.title = Ref("page", 0)
           ELSE /\ Out.best \in 1..Len(PsnWindow)
                /\ PsnWindow[Out.best].title = SetMax(PsnTitles)
                /\ Resp.page_title < PsnWindow[Out.best].title
                /\ \A j \in 1..(Out.best - 1) :
                      PsnWindow[j].title < PsnWindow[Out.best].title
                /\ Res.title = Ref("tile", Out.best)

\* two Steam results with the same confident score: the first one wins
C10_Witness ==
    /\ Looked /\ lastOut.source = "steam" /\ Resp.ok
    /\ Len(Resp.results) = 2
    /\ Resp.results[1].title = Resp.results[2].title
    /\ Resp.results[1].title = SIMILARITY_THRESHOLD
    /\ Res.found /\ Out.best = 1 /\ Res.title = Ref("result", 1)

(***************************************************************************)
(* Properties of the historical minimum (checked under SpecHistory)        *)
(***************************************************************************)
HistColumns == {ColSteamHist, ColPsnHist}

AtualOf(hist) == IF hist = ColSteamHist THEN ColSteamAtual ELSE ColPsnAtual

\* the decoded historical minimum the sheet holds for data row r
StoredHist(header, rows, r, hist) ==
    clean_price_to_float(StoredCell(header, rows, r, hist))

\* C2 as claimed: over any sequence of runs (two runs of one process less
\* than 300 seconds apart included) the decoded historical minimum in the
\* sheet never increases, and the batch write of a run leaves the minimum
\* of the value stored before it and the price the run observed.
C2_HistoricalMinimumIsMinimum ==
    [][\A r \in 1..Len(sheetRows) : \A h \in HistColumns :
          /\ ~FloatLess(StoredHist(sheetHeader, sheetRows, r, h),
                        StoredHist(sheetHeader', sheetRows', r, h))
          /\ (pc = "write" /\ pc' = "done")
                => FloatEq(StoredHist(sheetHeader', sheetRows', r, h),
                           FloatMin(StoredHist(sheetHeader, sheetRows, r, h),
                                    clean_price_to_float(df[r][AtualOf(h)])))]_vars

C3_Cases(before, after, result) ==
    LET currentValue == result.price_float
        historicalValue == clean_price_to_float(before)
    IN  /\ FloatLess(currentValue, historicalValue)
            => FloatEq(clean_price_to_float(after), currentValue)
        /\ (~IsInf(historicalValue) /\ ~FloatLess(currentValue, historicalValue))
            => after = before
        /\ (IsInf(historicalValue) /\ IsInf(currentValue) /\ ~result.found)
            => IsInf(clean_price_to_float(after))

\* C3: in one reconciliation step, a current value below the historical one
\* replaces it by a text that decodes to the current value; a finite
\* historical value not above the current one is left as it is; and with
\* both infinite and found = FALSE the historical text still decodes to
\* +infinity.
C3_Reconciliation ==
    [][/\ (pc = "steam" /\ pc' = "psn")
            => C3_Cases(df[index][ColSteamHist], df'[index][ColSteamHist],
                        lastOut'.out.result)
       /\ (pc = "psn" /\ pc' # "psn")
            => C3_Cases(df[index][ColPsnHist], df'[index][ColPsnHist],
                        lastOut'.out.result)]_vars

\* the sheet holds 65,00 as the Steam minimum, the run has read it afresh,
\* found 59,90 and lowered the minimum in the DataFrame
C3_Witness ==
    /\ pc = "psn"
    /\ lastCacheUpdate = now
    /\ StoredCell(sheetHeader, sheetRows, index, ColSteamHist) = TxtPrice65
    /\ lastOut.out.result.found
    /\ lastOut.out.result.price_str = TxtPrice59
    /\ df[index][ColSteamHist] = TxtPrice59

(***************************************************************************)
(* Properties of one call of run_scraper (checked under Spec)              *)
(***************************************************************************)
AtualColumns == {ColSteamAtual, ColPsnAtual}

\* C4 as claimed: a failed lookup shows in the 'Preco Atual' column as the
\* canonical unavailable sentinel, never as the text of its cause: every
\* stored current-price text that stands for no price is that sentinel.
C4_FailureTextIsSentinel ==
    \A r \in 1..Len(sheetRows) : \A c \in AtualColumns :
        LET cell == StoredCell(sheetHeader, sheetRows, r, c) IN
        (cell # EmptyText /\ IsInf(clean_price_to_float(cell)))
            => cell = TxtUnavailable

\* C6 as claimed: a row whose Nome is empty or blank is never queried and
\* none of its five output cells changes, whether or not the output
\* columns existed when the run started.
C6_BlankRowsUntouched ==
    [][\A r \in 1..Len(sheetRows) :
          IsBlankName(StoredCell(sheetHeader, sheetRows, r, ColNome))
            => /\ \A i \in 1..Len(trace') :
                     trace'[i].row = r => trace'[i].ev = "skip"
               /\ \A c \in SeqRange(target_gsheet_columns) :
                     StoredCell(sheetHeader', sheetRows', r, c)
                        = StoredCell(sheetHeader, sheetRows, r, c)]_vars

\* C7 as claimed: whatever the header layout, no step of a run changes a
\* cell outside the five output columns, and no row is deleted or moved.
C7_OnlyOutputColumns ==
    [][/\ Len(sheetRows') = Len(sheetRows)
       /\ Len(sheetHeader') >= Len(sheetHeader)
       /\ \A c \in 1..Len(sheetHeader) : sheetHeader'[c] = sheetHeader[c]
       /\ \A r \in 1..Len(sheetRows) : \A c \in 1..Len(sheetHeader') :
             sheetHeader'[c] \notin SeqRange(target_gsheet_columns)
                => CellAt(sheetRows'[r], c) = CellAt(sheetRows[r], c)]_vars

TraceHas(e, r) == \E i \in 1..Len(trace) : trace[i].ev = e /\ trace[i].row = r

TraceHow(h) == \E i \in 1..Len(trace) : trace[i].how = h

C11_RoundTrip ==
    (lastOut.source = "format, parse" /\ lastResp.resp \in CanonicalPrices)
        => FloatEq(lastOut.out, lastResp.resp)

\* 1.234.567 has been formatted with two separators and parsed back
C11_Witness ==
    /\ lastOut.source = "format, parse"
    /\ lastResp.resp = Dec(1234567, 0)
    /\ clean_price_to_float(format_float_to_price_str(lastResp.resp)) = lastOut.out
    /\ Contains(format_float_to_price_str(lastResp.resp), <<"1", ".", "2", "3", "4", ".">>)
    /\ FloatEq(lastOut.out, Dec(1234567, 0))

\* C12 as claimed: _clean_game_title is idempotent: cleaning a cleaned title
\* changes nothing, also when the removal of a trade mark sign or of a
\* parenthesized part joins its neighbours into a keyword.
C12_Idempotent ==
    (lastOut.source = "clean, clean")
        => lastOut.out = _clean_game_title(lastResp.resp)

\* the amount a price text shows, rounded up to the next integer
CeilAmount(a) ==
    LET p == Pow10(a.scale) IN Dec((a.num + p - 1) \div p, 0)

\* C13 as claimed: the float of a price text that shows an amount is that
\* amount rounded up to the next integer ('R$ 199,90' gives 200).
C13_ParseIsCeiling ==
    (lastOut.source = "parse")
        => /\ ~IsInf(lastOut.out)
           /\ FloatEq(lastOut.out, CeilAmount(lastResp.resp.amount))

\* C13 amended: the float of a price text that shows an amount in the
\* Brazilian notation is that amount itself, centavos included and not
\* rounded ('R$ 199,90' gives 199.9); it is finite and not negative.
C13_ParseIsExact ==
    (lastOut.source = "parse")
        => /\ ~IsInf(lastOut.out)
           /\ lastOut.out.num >= 0
           /\ FloatEq(lastOut.out, lastResp.resp.amount)

\* 'R$ 199,90' has been parsed to 199.9, which is no integer
C13_Witness ==
    /\ lastOut.source = "parse"
    /\ lastResp.resp.text = <<"R", "$", " ", "1", "9", "9", ",", "9", "0">>
    /\ FloatEq(lastOut.out, Dec(1999, 1))
    /\ ~FloatEq(lastOut.out, CeilAmount(lastResp.resp.amount))

(***************************************************************************)
(* Properties of the order of a run and of its failures (checked under     *)
(* Spec)                                                                   *)
(***************************************************************************)
RowEvents == {"steam", "psn", "skip"}

\* row r has been dealt with: skipped if its name is blank, else looked up
\* on Steam and on PSN
Complete(r) ==
    IF IsBlankName(df[r][ColNome])
    THEN TraceHas("skip", r)
    ELSE TraceHas("steam", r) /\ TraceHas("psn", r)

Writes == {i \in 1..Len(trace) : trace[i].ev = "write"}

\* the ways a run ends before its item loop is over
EarlyEnds == {"open failed", "read failed", "empty", "return", "exception", "KeyError"}

\* the lookups of a run come one after the other, Steam then PSN of the same
\* row, row after row, each once
LookupsInOrder ==
    \A i \in 1..Len(trace) :
        LET e == trace[i] IN
        /\ (e.ev \in RowEvents)
              => /\ \A j \in 1..(i - 1) :
                       /\ trace[j].row <= e.row
                       /\ ~(trace[j].ev = e.ev /\ trace[j].row = e.row)
                 /\ \A r \in 1..(e.row - 1) : Complete(r)
                 /\ (e.ev = "skip") = IsBlankName(df[e.row][ColNome])
        /\ (e.ev = "psn")
              => /\ i > 1
                 /\ trace[i - 1].ev = "steam" /\ trace[i - 1].row = e.row
                 /\ trace[i - 1].how # "KeyError"
        /\ (e.ev = "steam" /\ i < Len(trace))
              => trace[i + 1].ev = "psn" /\ trace[i + 1].row = e.row

\* C14 as claimed: every run looks its items up in order and writes the row
\* data exactly once, as one batch after the last item.
C14_WrittenExactlyOncePerRun ==
    /\ LookupsInOrder
    /\ (pc = "done")
          => /\ Cardinality(Writes) = 1
             /\ trace[Len(trace)].ev = "write"
             /\ \A r \in 1..Len(df) : Complete(r)

\* C14 amended: lookups are sequential, Steam then PSN of each non-blank
\* item in row order; the batch update is issued at most once per run, after
\* every item has been dealt with and never per row: exactly once when the
\* item loop comes to its end, and not at all when the run ends early.
C14_SequentialAndOneBatch ==
    /\ LookupsInOrder
    /\ \A i \in Writes : i = Len(trace) /\ \A r \in 1..Len(df) : Complete(r)
    /\ (pc = "write") => (Writes = {} /\ \A r \in 1..Len(df) : Complete(r))
    /\ (pc = "done")
          => IF trace[Len(trace)].ev = "write"
             THEN Cardinality(Writes) = 1
             ELSE Writes = {} /\ trace[Len(trace)].how \in EarlyEnds

\* two games: Steam and PSN of the first, then of the second, then the batch
C14_Witness ==
    /\ pc = "done"
    /\ Len(trace) = 6
    /\ [i \in 1..6 |-> <<trace[i].ev, trace[i].row>>]
          = << <<"read", 0>>, <<"steam", 1>>, <<"psn", 1>>,
               <<"steam", 2>>, <<"psn", 2>>, <<"write", 0>> >>
    /\ trace[6].how = "ok"

\* C15: when the sheet cannot be opened or read at the start of a run, or
\* the final write fails, run_scraper returns and no exception leaves it;
\* after an open or read failure no storefront is queried and the sheet is
\* not written.
C15_StoreFailureIsCaught ==
    [][/\ pc' \in {"idle", "steam", "psn", "write", "done"}
       /\ (pc = "idle" /\ trace' # <<>>
              /\ trace'[1].how \in {"open failed", "read failed"})
            => /\ pc' = "done"
               /\ Len(trace') = 1
               /\ sheetHeader' = sheetHeader /\ sheetRows' = sheetRows
       /\ (trace # <<>> /\ trace[1].how \in {"open failed", "read failed"})
            => /\ pc' = "idle"
               /\ sheetHeader' = sheetHeader /\ sheetRows' = sheetRows
       /\ (pc = "write" /\ trace'[Len(trace')].how = "exception")
            => pc' = "done" /\ sheetRows' = sheetRows]_vars

\* the sheet of one game could not be opened: the run is over, nothing was
\* looked up and every output cell is as it was
C15_Witness ==
    /\ pc = "done"
    /\ trace = <<Event("no data", 0, "open failed")>>
    /\ ~sheetCache
    /\ Len(sheetRows) = 1
    /\ StoredCell(sheetHeader, sheetRows, 1, ColNome) = TxtGame
    /\ \A c \in AtualColumns : StoredCell(sheetHeader, sheetRows, 1, c) = EmptyText

(***************************************************************************)
(* The url of a PSN result (checked under SpecLookup)                      *)
(***************************************************************************)
\* C16 as claimed: the url of a found PSN result is the link of the winning
\* candidate, or the search URL when the winner is the page itself or a
\* tile without link; never the link of another tile.
C16_UrlOfWinner ==
    (Looked /\ lastOut.source = "psn" /\ ~Out.raised /\ Res.found)
        => Res.url = IF Out.best # Soup /\ PsnWindow[Out.best].link
                     THEN Ref("tile_link", Out.best)
                     ELSE Ref("search_url", 0)

====
